---- MODULE Spec2Model ----
(***************************************************************************)
(* PulsePoint server: the lazily initialised MongoDB connection cache, the *)
(* session issuer (POST /jwt), the access gate (verifyJWT, verifyRole,     *)
(* verifyFirebaseToken), the global error handler and the handlers that    *)
(* touch the Users and the Fundings collection.                            *)
(*                                                                         *)
(* The repository holds several entry files, each building its own express *)
(* app with its own module-level cache: src/index.js ("index"),            *)
(* src/unnamed/part_000 ("part_000") and src/unnamed/part_001              *)
(* ("part_001").  They read the same JWT_SECRET and the same "PulsePoint"  *)
(* database, so a request names the app it is sent to, while the store and *)
(* the set of signed session tokens are shared.                            *)
(*                                                                         *)
(* Requests interleave at the await points of the handlers: the connect of *)
(* connectDb and every store round trip.  Time is counted in days.         *)
(***************************************************************************)
EXTENDS Integers, Sequences, FiniteSets, TLC

\* ------------------------------------------------------------ bounds
NReq == 3          \* request slots of a run
NAll == 1          \* requests of a run that may take any route
MaxUsers == 2      \* documents the Users collection may hold
MaxClock == 2      \* days the clock may advance
MaxFunds == 2      \* documents the Fundings collection may hold

\* ------------------------------------------------------------ program constants
ExpiresInDays == 7 \* jwt.sign(..., { expiresIn: "7d" })

Apps == {"index", "part_000", "part_001"}
Emails == {"a@x", "b@x"}
Roles == {"donor", "volunteer", "admin"}
Statuses == {"active", "blocked"}
None == "none"

VARIABLES
    cachedClient,    \* [Apps -> client id, 0 is null]
    cachedDb,        \* [Apps -> client id of the db handle, 0 is null]
    nextClient,      \* number of MongoClient objects constructed so far
    connections,     \* [Apps -> set of client ids whose connect() resolved]
    boot,            \* the connectDb() call made at module load of index.js
    uriSet,          \* the connection string is present in the environment
    users,           \* the Users collection, in insertion order (_id = index)
    blogs,           \* number of documents in Blogs
    donationRequests,\* number of documents in donationRequests
    fundings,        \* the Fundings collection, in insertion order
    issued,          \* session tokens signed with JWT_SECRET so far
    clock,           \* now, in days
    req              \* [1..NReq -> request record]

vars == <<cachedClient, cachedDb, nextClient, connections, boot, uriSet,
          users, blogs, donationRequests, fundings, issued, clock, req>>

\* ------------------------------------------------------------ tokens
\* What the Authorization header may carry after the scheme word.
NoTok == [kind |-> None, email |-> None, role |-> None, iat |-> 0]
Garbage == [kind |-> "garbage", email |-> None, role |-> None, iat |-> 0]
IdToken(e) == [kind |-> "id", email |-> e, role |-> None, iat |-> 0]
SessionToken(e, r, t) == [kind |-> "jwt", email |-> e, role |-> r, iat |-> t]

Schemes == {None, "Bearer", "Basic"}

\* jwt.sign(payload, JWT_SECRET, {expiresIn: "7d"}): exp = iat + 7 days.
Exp(tok) == tok.iat + ExpiresInDays

\* Variant: a verification that never looks at the expiry.
JwtVerifyOkNoExpiry(tok, now) == tok.kind = "jwt"

\* jwt.verify(token, JWT_SECRET): the signature is ours and now < exp.
JwtVerifyOk(tok, now) == tok.kind = "jwt" /\ now < Exp(tok)

\* Variant: a verifier that accepts whatever token the header carries.
VerifyIdTokenOkAny(tok) == tok.kind # None

\* admin.auth().verifyIdToken(idToken)
VerifyIdTokenOk(tok) == tok.kind = "id"

\* ------------------------------------------------------------ routes
IndexRoutes == {"POST /users", "GET /users", "GET /users/:email",
                "PATCH /users/:id", "PATCH /users/email/:email",
                "PATCH /users/:id/status", "PATCH /users/:id/role",
                "POST /donation-requests", "POST /blogs",
                "POST /fundings", "GET /fundings"}
PartRoutes == {"POST /jwt", "POST /users", "GET /users", "GET /users/:email",
               "PATCH /users/:id", "POST /donation-requests", "POST /blogs"}
AllRoutes == IndexRoutes \cup PartRoutes

RoutesOf(app) == IF app = "index" THEN IndexRoutes ELSE PartRoutes

IsGet(route) == route \in {"GET /users", "GET /users/:email", "GET /fundings"}

\* The roles a route of index.js hands to verifyRole(...); {} when the route
\* does not use verifyRole.
AllowedRoles(route) ==
    CASE route \in {"GET /users", "PATCH /users/:id", "POST /blogs"} -> {"admin"}
      [] route = "POST /donation-requests" -> {"donor"}
      [] OTHER -> {}

PublicRoutes == {"POST /users", "POST /jwt"}

\* Variant: the routes of index.js registered without verifyRole.
ChainNoRoleGate(app, route) ==
    IF app = "index" /\ IsGet(route) THEN <<"spa">>
    ELSE IF route \in PublicRoutes THEN <<"handler">>
    ELSE IF app = "part_000" THEN <<"verifyJWT", "verifyFirebaseToken", "handler">>
    ELSE <<"verifyJWT", "handler">>

\* The middleware chain express runs for a request, in registration order.
\* In index.js app.get("*") is registered before every route, so it answers
\* every GET request ("spa").
Chain(app, route) ==
    IF app = "index" /\ IsGet(route) THEN <<"spa">>
    ELSE IF route \in PublicRoutes THEN <<"handler">>
    ELSE IF app = "index" THEN
        IF AllowedRoles(route) # {}
        THEN <<"verifyJWT", "verifyRole", "handler">>
        ELSE <<"verifyJWT", "handler">>
    ELSE IF app = "part_000" THEN <<"verifyJWT", "verifyFirebaseToken", "handler">>
    ELSE <<"verifyJWT", "handler">>

\* ------------------------------------------------------------ requests
NoBody == [email |-> None, role |-> None, status |-> None]

\* The request bodies a route is exercised with.
BodiesOf(route) ==
    CASE route \in {"POST /users", "POST /jwt"} ->
             {[email |-> e, role |-> r, status |-> None] :
                  e \in Emails, r \in {None, "admin"}}
      [] route \in {"PATCH /users/:id", "PATCH /users/email/:email"} ->
             {[email |-> None, role |-> "admin", status |-> None],
              [email |-> None, role |-> "donor", status |-> "blocked"]}
      [] route = "PATCH /users/:id/status" ->
             {[email |-> None, role |-> None, status |-> "blocked"]}
      [] route = "PATCH /users/:id/role" ->
             {[email |-> None, role |-> r, status |-> None] : r \in {"admin", "volunteer"}}
      [] OTHER -> {NoBody}

\* The :id of a route (1..MaxUsers; 0 when the route has none).
IdsOf(route) ==
    IF route \in {"PATCH /users/:id", "PATCH /users/:id/status", "PATCH /users/:id/role"}
    THEN 1..MaxUsers ELSE {0}

\* The :email of a route.
ParamEmailsOf(route) ==
    IF route \in {"PATCH /users/email/:email", "GET /users/:email"}
    THEN Emails ELSE {None}

Idle == [app |-> None, route |-> None, scheme |-> None, tok |-> NoTok,
         body |-> NoBody, id |-> 0, pemail |-> None,
         fuid |-> None, amountOk |-> TRUE, listed |-> {},
         stage |-> 0, pc |-> "idle", user |-> NoTok, fbUser |-> NoTok,
         client |-> 0, db |-> 0, status |-> 0, outcome |-> None,
         reached |-> FALSE, accessed |-> FALSE, authOk |-> FALSE, roleOk |-> FALSE,
         existed |-> FALSE, detail |-> FALSE]

\* res.status(s).send/json(...): the response ends the request.
Respond(rq, s, what) == [rq EXCEPT !.pc = "done", !.status = s, !.outcome = what]

\* The body of the global error handler carries err.message in index.js;
\* the older files send the fixed message alone.
ErrorBodyHasDetail(app) == app = "index"

\* app.use((err, req, res, next) => ...): the global error handler.
ErrorHandler(rq) ==
    [Respond(rq, 500, "InternalError") EXCEPT !.detail = ErrorBodyHasDetail(rq.app)]

\* next(): control passes to the following element of the chain.
CallNext(rq) ==
    LET i == rq.stage + 1
    IN [rq EXCEPT !.stage = i, !.pc = Chain(rq.app, rq.route)[i]]

\* ------------------------------------------------------------ the store
\* collection.findOne({email}): the _id of the first match, 0 for null.
FindOne(us, e) ==
    IF \E i \in 1..Len(us) : us[i].email = e
    THEN CHOOSE i \in 1..Len(us) :
             us[i].email = e /\ \A j \in 1..(i - 1) : us[j].email # e
    ELSE 0

\* {$set: update}: the fields the update names are overwritten.
SetFields(rec, upd) ==
    [rec EXCEPT !.role = IF upd.role # None THEN upd.role ELSE @,
                !.status = IF upd.status # None THEN upd.status ELSE @]

\* collection.updateOne({_id}, {$set: update})
UpdateOneById(us, id, upd) ==
    IF id \in 1..Len(us) THEN [us EXCEPT ![id] = SetFields(@, upd)] ELSE us

\* collection.updateOne({email}, {$set: update})
UpdateOneByEmail(us, e, upd) ==
    LET i == FindOne(us, e) IN UpdateOneById(us, i, upd)

\* The document POST /users inserts: role and status are forced.
NewUser(body) == [email |-> body.email, role |-> "donor", status |-> "active"]

\* decoded.uid: the uid of the account an email belongs to.
UidOf(e) ==
    CASE e = "a@x" -> "uid-a"
      [] e = "b@x" -> "uid-b"
      [] OTHER -> None

\* Variant: the identity fields of the body kept where the body has them.
StampKeepBody(rq) ==
    [userId |-> IF rq.fuid # None THEN rq.fuid ELSE UidOf(rq.user.email),
     email |-> IF rq.body.email # None THEN rq.body.email ELSE rq.user.email,
     by |-> rq.user.email]

\* The document POST /fundings inserts: fund.userId = uid and
\* fund.email = email of req.user, whatever the body said.  by records the
\* caller that made the request.
Stamp(rq) ==
    [userId |-> UidOf(rq.user.email), email |-> rq.user.email, by |-> rq.user.email]

\* The _ids GET /fundings finds for req.user: every document for an admin,
\* {$or: [{userId: uid}, {email}]} for anybody else.
FundingsFilter(user, fs) ==
    {i \in 1..Len(fs) :
        \/ user.role = "admin"
        \/ fs[i].userId = UidOf(user.email)
        \/ fs[i].email = user.email}

\* ------------------------------------------------------------ connectDb
\* The early-return test of connectDb.
CacheHit(app) ==
    IF app = "index" THEN cachedDb[app] # 0
    ELSE cachedClient[app] # 0 /\ cachedDb[app] # 0

\* Variant: the client cached as soon as it is constructed.
CacheOnCreateEager(cache, app, c) == [cache EXCEPT ![app] = c]

\* What constructing the MongoClient does to cachedClient: nothing, the
\* cache is assigned only after the connect resolved.
CacheOnCreate(cache, app, c) == cache

\* A fault thrown inside a handler: asyncHandler hands it to the global
\* error handler (500); POST /jwt of part_000 catches it itself (403).
Fault(rq) ==
    IF rq.app = "part_000" /\ rq.route = "POST /jwt"
    THEN Respond(rq, 403, "Forbidden")
    ELSE ErrorHandler(rq)

\* connectDb() up to its first suspension, called by request rq.
ConnectDbCall(rq) ==
    IF CacheHit(rq.app)
    THEN [rq EXCEPT !.db = cachedDb[rq.app], !.pc = "op", !.accessed = TRUE]
    ELSE IF ~uriSet
    THEN Fault([rq EXCEPT !.accessed = TRUE])
    ELSE [rq EXCEPT !.client = nextClient + 1, !.pc = "connecting", !.accessed = TRUE]
\* What a resolved connect does to cachedClient and cachedDb: the
\* assignment is unconditional, the cache is not looked at again.
CacheOnResolve(cache, app, c) == [cache EXCEPT ![app] = c]

\* userInDb?.role || "donor" of POST /jwt (part_000).
IssuedRole(us, e) ==
    LET i == FindOne(us, e) IN IF i = 0 THEN "donor" ELSE us[i].role

\* Variant: the role read from the live User Record of the token's email.
GateRoleLive(rq) == IssuedRole(users, rq.user.email)

\* The role verifyRole tests: the claim of the decoded token.
GateRole(rq) == rq.user.role

\* ------------------------------------------------------------ initial states
\* The store and the tokens outlive a process: a cold start may find users
\* registered, and tokens signed, by an earlier instance.
\* The seeded tokens were signed so long ago that they expire on day 1.
SeedIat == 1 - ExpiresInDays
Seeds ==
    { [users |-> <<>>, issued |-> {}],
      [users |-> <<[email |-> "a@x", role |-> "admin", status |-> "active"]>>,
       issued |-> {SessionToken("a@x", "admin", SeedIat)}],
      [users |-> <<[email |-> "a@x", role |-> "admin", status |-> "active"],
                   [email |-> "b@x", role |-> "donor", status |-> "active"]>>,
       issued |-> {SessionToken("a@x", "admin", SeedIat),
                   SessionToken("b@x", "donor", SeedIat)}] }

\* Module load of index.js runs connectDb() up to its first await: the
\* call is suspended in client.connect(), or already rejected when the
\* connection string is unset.
InitFrom(seeds) ==
    \E u \in BOOLEAN, s \in seeds :
        /\ uriSet = u
        /\ users = s.users
        /\ issued = s.issued
        /\ cachedClient = [a \in Apps |-> 0]
        /\ cachedDb = [a \in Apps |-> 0]
        /\ connections = [a \in Apps |-> {}]
        /\ boot = IF u THEN [pc |-> "connecting", client |-> 1]
                       ELSE [pc |-> "rejected", client |-> 0]
        /\ nextClient = IF u THEN 1 ELSE 0
        /\ blogs = 0
        /\ donationRequests = 0
        /\ fundings = <<>>
        /\ clock = 0
        /\ req = [r \in 1..NReq |-> Idle]

Init == InitFrom(Seeds)

\* ------------------------------------------------------------ actions
\* A request as it arrives: the app it is sent to, the route, the
\* Authorization header (scheme and token), the body and the route parameters.
Request(app, route, scheme, tok, body, id, pe) ==
    [Idle EXCEPT !.app = app, !.route = route, !.scheme = scheme, !.tok = tok,
                 !.body = body, !.id = id, !.pemail = pe]

Targets == {t \in Apps \X AllRoutes : t[2] \in RoutesOf(t[1])}

\* The tokens a caller may put behind a scheme word.
HeaderToks(scheme) ==
    IF scheme = None THEN {NoTok}
    ELSE issued \cup {IdToken(e) : e \in Emails} \cup {Garbage}

\* Every request the apps have a route for.
AllInputs ==
    UNION { {Request(t[1], t[2], sc, tk, b, id, pe) :
                 tk \in HeaderToks(sc), b \in BodiesOf(t[2]),
                 id \in IdsOf(t[2]), pe \in ParamEmailsOf(t[2])} :
            t \in Targets, sc \in Schemes }

\* Request r, one of the first n of the run, arrives with one of the inputs
\* and express starts its chain.
ReceiveFrom(r, n, inputs) ==
    /\ r <= n
    /\ req[r].pc = "idle"
    /\ \A q \in 1..(r - 1) : req[q].pc # "idle"
    /\ \E in \in inputs :
           /\ in.app = "index" => boot.pc # "crashed"
           /\ req' = [req EXCEPT ![r] =
                     CallNext([in EXCEPT !.existed = FindOne(users, in.body.email) # 0])]
    /\ UNCHANGED <<cachedClient, cachedDb, nextClient, connections, boot, uriSet,
                   users, blogs, donationRequests, fundings, issued, clock>>

Receive(r) == ReceiveFrom(r, NAll, AllInputs)

\* app.get("*") of index.js: sendFile answers, or fails into the error handler.
ServeReactApp(r) ==
    /\ req[r].pc = "spa"
    /\ \E ok \in BOOLEAN :
         req' = [req EXCEPT ![r] = IF ok THEN Respond(@, 200, "StaticPage")
                                        ELSE ErrorHandler(@)]
    /\ UNCHANGED <<cachedClient, cachedDb, nextClient, connections, boot, uriSet,
                   users, blogs, donationRequests, fundings, issued, clock>>

\* verifyJWT.  index.js wants the Bearer scheme; the older files only want
\* a header and verify whatever follows the first space.  The 403 of
\* index.js carries error.message of jwt.verify.
VerifyJWT(r) ==
    /\ req[r].pc = "verifyJWT"
    /\ LET rq == req[r]
           noCred == IF rq.app = "index" THEN rq.scheme # "Bearer"
                                         ELSE rq.scheme = None
       IN req' = [req EXCEPT ![r] =
                    IF noCred THEN Respond(rq, 401, "Unauthorized")
                    ELSE IF JwtVerifyOk(rq.tok, clock)
                    THEN CallNext([rq EXCEPT !.user = rq.tok, !.authOk = TRUE])
                    ELSE [Respond(rq, 403, "Forbidden") EXCEPT
                              !.detail = (rq.app = "index")]]
    /\ UNCHANGED <<cachedClient, cachedDb, nextClient, connections, boot, uriSet,
                   users, blogs, donationRequests, fundings, issued, clock>>

\* verifyRole(...roles) of index.js.
VerifyRole(r) ==
    /\ req[r].pc = "verifyRole"
    /\ LET rq == req[r]
       IN req' = [req EXCEPT ![r] =
                    IF GateRole(rq) \notin AllowedRoles(rq.route)
                    THEN Respond(rq, 403, "InsufficientRole")
                    ELSE CallNext([rq EXCEPT !.roleOk = TRUE])]
    /\ UNCHANGED <<cachedClient, cachedDb, nextClient, connections, boot, uriSet,
                   users, blogs, donationRequests, fundings, issued, clock>>

\* verifyFirebaseToken of part_000.
VerifyFirebaseToken(r) ==
    /\ req[r].pc = "verifyFirebaseToken"
    /\ LET rq == req[r]
       IN req' = [req EXCEPT ![r] =
                    IF rq.scheme # "Bearer" THEN Respond(rq, 401, "Unauthorized")
                    ELSE IF VerifyIdTokenOk(rq.tok)
                    THEN CallNext([rq EXCEPT !.fbUser = rq.tok])
                    ELSE Respond(rq, 403, "Forbidden")]
    /\ UNCHANGED <<cachedClient, cachedDb, nextClient, connections, boot, uriSet,
                   users, blogs, donationRequests, fundings, issued, clock>>
\* The token POST /jwt of part_001 signs: the request body as it came.
SignBody(body, now) == SessionToken(body.email, body.role, now)

\* The token POST /jwt of part_000 signs for a verified identity assertion.
SignForAssertion(idTok, us, now) ==
    SessionToken(idTok.email, IssuedRole(us, idTok.email), now)

\* A handler starts and runs to its first await.  Store handlers call
\* connectDb(); POST /jwt first looks at the identity assertion (part_000)
\* or signs the body at once (part_001); POST /users of index.js wants an
\* email.
HandlerEnter(r) ==
    /\ req[r].pc = "handler"
    /\ LET rq == [req[r] EXCEPT !.reached = TRUE]
           jwt == rq.route = "POST /jwt"
           new == IF jwt /\ rq.app = "part_001"
                  THEN Respond(rq, 200, "Token")
                  ELSE IF jwt /\ rq.scheme # "Bearer"
                  THEN Respond(rq, 401, "Unauthorized")
                  ELSE IF jwt /\ ~VerifyIdTokenOk(rq.tok)
                  THEN Respond(rq, 403, "Forbidden")
                  ELSE IF rq.app = "index" /\ rq.route = "POST /users"
                          /\ rq.body.email = None
                  THEN Respond(rq, 400, "BadRequest")
                  ELSE IF rq.route = "POST /fundings" /\ ~rq.amountOk
                  THEN Respond(rq, 400, "BadRequest")
                  ELSE ConnectDbCall(IF jwt THEN [rq EXCEPT !.fbUser = rq.tok] ELSE rq)
       IN /\ req' = [req EXCEPT ![r] = new]
          /\ nextClient' = IF new.pc = "connecting" THEN new.client ELSE nextClient
          /\ cachedClient' = IF new.pc = "connecting"
                             THEN CacheOnCreate(cachedClient, rq.app, new.client)
                             ELSE cachedClient
          /\ issued' = IF jwt /\ rq.app = "part_001"
                       THEN issued \cup {SignBody(rq.body, clock)}
                       ELSE issued
    /\ UNCHANGED <<cachedDb, connections, boot, uriSet,
                   users, blogs, donationRequests, fundings, clock>>

\* await client.connect() resolves: the caller caches its own client and db.
ConnectResolve(r) ==
    /\ req[r].pc = "connecting"
    /\ LET c == req[r].client
           app == req[r].app
       IN /\ connections' = [connections EXCEPT ![app] = @ \cup {c}]
          /\ cachedClient' = CacheOnResolve(cachedClient, app, c)
          /\ cachedDb' = CacheOnResolve(cachedDb, app, c)
          /\ req' = [req EXCEPT ![r].db = c, ![r].pc = "op"]
    /\ UNCHANGED <<nextClient, boot, uriSet, users, blogs, donationRequests, fundings,
                   issued, clock>>

\* await client.connect() rejects: connectDb throws before touching the cache.
ConnectReject(r) ==
    /\ req[r].pc = "connecting"
    /\ req' = [req EXCEPT ![r] = Fault(@)]
    /\ UNCHANGED <<cachedClient, cachedDb, nextClient, connections, boot, uriSet,
                   users, blogs, donationRequests, fundings, issued, clock>>

\* The connectDb() of module load resolves or rejects.
BootResolve ==
    /\ boot.pc = "connecting"
    /\ connections' = [connections EXCEPT !["index"] = @ \cup {boot.client}]
    /\ cachedClient' = CacheOnResolve(cachedClient, "index", boot.client)
    /\ cachedDb' = CacheOnResolve(cachedDb, "index", boot.client)
    /\ boot' = [boot EXCEPT !.pc = "resolved"]
    /\ UNCHANGED <<nextClient, uriSet, users, blogs, donationRequests, fundings,
                   issued, clock, req>>

BootReject ==
    /\ boot.pc = "connecting"
    /\ boot' = [boot EXCEPT !.pc = "rejected"]
    /\ UNCHANGED <<cachedClient, cachedDb, nextClient, connections, uriSet,
                   users, blogs, donationRequests, fundings, issued, clock, req>>

\* The rejection of the connectDb() of module load has no handler: line 69
\* attaches none.  A Node that treats an unhandled rejection as an uncaught
\* exception ends the process of index.js here, its cache and its requests
\* in flight with it; another only prints a warning and goes on (no step).
BootCrash ==
    /\ boot.pc = "rejected"
    /\ boot' = [boot EXCEPT !.pc = "crashed"]
    /\ cachedClient' = [cachedClient EXCEPT !["index"] = 0]
    /\ cachedDb' = [cachedDb EXCEPT !["index"] = 0]
    /\ req' = [r \in 1..NReq |->
                 IF req[r].app = "index" /\ req[r].pc \notin {"idle", "done"}
                 THEN [req[r] EXCEPT !.pc = "aborted"]
                 ELSE req[r]]
    /\ UNCHANGED <<nextClient, connections, uriSet, users, blogs, donationRequests,
                   fundings, issued, clock>>

CreatedStatus(app) == IF app = "index" THEN 201 ELSE 200
ExistsStatus(app) == IF app = "index" THEN 409 ELSE 200

\* The users collection after the store operation of a handler.
UsersAfter(rq, us) ==
    CASE rq.route = "PATCH /users/:id" -> UpdateOneById(us, rq.id, rq.body)
      [] rq.route = "PATCH /users/email/:email" -> UpdateOneByEmail(us, rq.pemail, rq.body)
      [] rq.route = "PATCH /users/:id/status" ->
             UpdateOneById(us, rq.id, [rq.body EXCEPT !.role = None])
      [] rq.route = "PATCH /users/:id/role" ->
             UpdateOneById(us, rq.id, [rq.body EXCEPT !.status = None])
      [] OTHER -> us

\* The first store round trip of a handler completes and the handler runs on
\* to its response or to its next await.
StoreOp(r) ==
    /\ req[r].pc = "op"
    /\ LET rq == req[r]
           rt == rq.route
       IN /\ req' = [req EXCEPT ![r] =
                CASE rt = "POST /jwt" -> Respond(rq, 200, "Token")
                  [] rt = "POST /users" ->
                        IF FindOne(users, rq.body.email) # 0
                        THEN Respond(rq, ExistsStatus(rq.app), "Conflict")
                        ELSE [rq EXCEPT !.pc = "insert"]
                  [] rt \in {"POST /donation-requests", "POST /blogs"} ->
                        Respond(rq, CreatedStatus(rq.app), "Created")
                  [] rt = "POST /fundings" -> [rq EXCEPT !.pc = "insertFund"]
                  [] rt = "GET /fundings" ->
                        [Respond(rq, 200, "Ok") EXCEPT
                             !.listed = FundingsFilter(rq.user, fundings)]
                  [] OTHER -> Respond(rq, 200, "Ok")]
          /\ users' = UsersAfter(rq, users)
          /\ issued' = IF rt = "POST /jwt"
                       THEN issued \cup {SignForAssertion(rq.fbUser, users, clock)}
                       ELSE issued
          /\ blogs' = IF rt = "POST /blogs" THEN blogs + 1 ELSE blogs
          /\ donationRequests' = IF rt = "POST /donation-requests"
                                 THEN donationRequests + 1 ELSE donationRequests
          /\ UNCHANGED fundings
    /\ UNCHANGED <<cachedClient, cachedDb, nextClient, connections, boot, uriSet, clock>>

\* insertOne of POST /users completes.
InsertUser(r) ==
    /\ req[r].pc = "insert"
    /\ Len(users) < MaxUsers
    /\ users' = Append(users, NewUser(req[r].body))
    /\ req' = [req EXCEPT ![r] = Respond(@, CreatedStatus(@.app), "Created")]
    /\ UNCHANGED <<cachedClient, cachedDb, nextClient, connections, boot, uriSet,
                   blogs, donationRequests, fundings, issued, clock>>

\* insertOne of POST /fundings completes.
InsertFunding(r) ==
    /\ req[r].pc = "insertFund"
    /\ Len(fundings) < MaxFunds
    /\ fundings' = Append(fundings, Stamp(req[r]))
    /\ req' = [req EXCEPT ![r] = Respond(@, 201, "Created")]
    /\ UNCHANGED <<cachedClient, cachedDb, nextClient, connections, boot, uriSet,
                   users, blogs, donationRequests, issued, clock>>

\* A day passes.
Tick ==
    /\ clock < MaxClock
    /\ clock' = clock + 1
    /\ UNCHANGED <<cachedClient, cachedDb, nextClient, connections, boot, uriSet,
                   users, blogs, donationRequests, fundings, issued, req>>

Step(r) ==
    \/ ServeReactApp(r)
    \/ VerifyJWT(r)
    \/ VerifyRole(r)
    \/ VerifyFirebaseToken(r)
    \/ HandlerEnter(r)
    \/ ConnectResolve(r)
    \/ ConnectReject(r)
    \/ StoreOp(r)
    \/ InsertUser(r)
    \/ InsertFunding(r)

Next ==
    \/ \E r \in 1..NReq : Receive(r) \/ Step(r)
    \/ BootResolve
    \/ BootReject
    \/ BootCrash
    \/ Tick

\* Every app, every route, every header.
Spec == Init /\ [][Next]_vars
\* ------------------------------------------------------------ connection cache
\* Cold start: callers of connectDb() through the public POST /users of each
\* app, beside the call of module load.
NConn == 2

ConnInputs ==
    {Request(a, "POST /users", None, NoTok,
             [email |-> "b@x", role |-> None, status |-> None], 0, None) : a \in Apps}

ReceiveConn(r) == ReceiveFrom(r, NConn, ConnInputs)

NextConn ==
    \/ \E r \in 1..NReq :
           \/ ReceiveConn(r)
           \/ HandlerEnter(r)
           \/ ConnectResolve(r)
           \/ ConnectReject(r)
           \/ StoreOp(r)
           \/ InsertUser(r)
    \/ BootResolve
    \/ BootReject

SpecConn == Init /\ [][NextConn]_vars

\* A connectDb() call of request r is suspended in client.connect().
Connecting(a) ==
    \/ a = "index" /\ boot.pc = "connecting"
    \/ \E r \in 1..NReq : req[r].app = a /\ req[r].pc = "connecting"

\* C1: however many connectDb() calls start while the cache is empty, the
\* call of module load included, at most one connection is ever established
\* in a process (cachedDb is assigned at most once).
C1_AtMostOneConnection ==
    \A a \in Apps : Cardinality(connections[a]) <= 1

\* C2: once the concurrent cold-start calls of a process have all completed,
\* every caller holds the handle the cache retains.
C2_CallersHoldCachedHandle ==
    \A a \in Apps :
        ~Connecting(a) =>
            \A r \in 1..NReq :
                (req[r].app = a /\ req[r].db # 0) => req[r].db = cachedDb[a]

\* Request r ended in a fault of connectDb().
ConnectFailed(rq) == rq.pc = "done" /\ rq.accessed /\ rq.db = 0

\* The cache holds nothing but clients whose connect resolved.
C3_CacheOnlyEstablished ==
    \A a \in Apps :
        /\ cachedClient[a] \in connections[a] \cup {0}
        /\ cachedDb[a] \in connections[a] \cup {0}

\* The step in which a connectDb() call fails leaves the cache as it was.
C3_FailureStep ==
    \A r \in 1..NReq :
        (~ConnectFailed(req[r]) /\ ConnectFailed(req'[r])) =>
            cachedClient' = cachedClient /\ cachedDb' = cachedDb

\* A call that finds no established connection gets no handle from the
\* cache: it makes its own attempt (or fails on the unset connection string).
C3_RetryStep ==
    \A r \in 1..NReq :
        (req[r].pc = "handler" /\ req'[r].accessed /\ connections[req[r].app] = {}) =>
            /\ req'[r].db = 0
            /\ uriSet => (req'[r].pc = "connecting" /\ req'[r].client = nextClient')
            /\ ~uriSet => ConnectFailed(req'[r])

\* C3: a failing connectDb() (connection string unset, or connect rejects)
\* leaves cachedClient and cachedDb as they were, the cache never holds a
\* client whose connect did not resolve, and the next call makes a fresh
\* connection attempt instead of returning a cached failure.
C3_FailedConnectDoesNotPoison ==
    /\ []C3_CacheOnlyEstablished
    /\ [][C3_FailureStep /\ C3_RetryStep]_vars

\* C3 witness: a call failed in connect with the cache empty, and a later
\* call of the same app made its own attempt and got a handle.
C3_Witness ==
    \E r1, r2 \in 1..NReq :
        /\ req[r1].app = req[r2].app
        /\ ConnectFailed(req[r1]) /\ req[r1].client # 0
        /\ req[r2].client > req[r1].client
        /\ req[r2].db = req[r2].client
        /\ cachedDb[req[r2].app] = req[r2].client
\* ------------------------------------------------------------ access gate
\* Requests to the role-gated routes of index.js, with no header, with an
\* undecodable token and with every session token signed so far; the store
\* holds an admin and a donor, each with a token that verifies.
NGate == 2

SeededInit == Init /\ uriSet /\ \A s \in Seeds : Len(s.users) <= Len(users)

GateHeaders ==
    {<<None, NoTok>>, <<"Bearer", Garbage>>} \cup {<<"Bearer", t>> : t \in issued}

GateInputs ==
    {Request("index", rt, h[1], h[2], NoBody, 0, None) :
        rt \in {"GET /users", "POST /blogs", "POST /donation-requests"},
        h \in GateHeaders}
    \cup
    {Request("index", "PATCH /users/:id", h[1], h[2],
             [email |-> None, role |-> "donor", status |-> "blocked"], 1, None) :
        h \in GateHeaders}

ReceiveGate(r) == ReceiveFrom(r, NGate, GateInputs)

NextGate ==
    \/ \E r \in 1..NReq :
           \/ ReceiveGate(r)
           \/ ServeReactApp(r)
           \/ VerifyJWT(r)
           \/ VerifyRole(r)
           \/ HandlerEnter(r)
           \/ ConnectResolve(r)
           \/ ConnectReject(r)
           \/ StoreOp(r)
    \/ BootResolve
    \/ BootReject

SpecGate == SeededInit /\ [][NextGate]_vars

AdminOnlyRoutes == {"GET /users", "PATCH /users/:id", "POST /blogs"}

\* Request rq carries a session token that verifies now (so it verified at
\* any earlier moment of the run) with the given role.
CarriesValid(rq, role) ==
    /\ rq.scheme = "Bearer"
    /\ JwtVerifyOk(rq.tok, clock)
    /\ rq.tok.role = role

\* C4: on every admin-only route of index.js a request with a valid donor
\* token ends with 403 InsufficientRole and its handler is never invoked.
C4_DonorGets403OnAdminRoutes ==
    \A r \in 1..NReq :
        (/\ req[r].app = "index"
         /\ req[r].route \in AdminOnlyRoutes
         /\ CarriesValid(req[r], "donor"))
        => /\ ~req[r].reached
           /\ ~req[r].accessed
           /\ req[r].pc = "done" =>
                  (req[r].status = 403 /\ req[r].outcome = "InsufficientRole")

\* The part of C4 the code keeps: the handler is never invoked.
C4_DonorNeverReachesHandler ==
    \A r \in 1..NReq :
        (/\ req[r].app = "index"
         /\ req[r].route \in AdminOnlyRoutes
         /\ CarriesValid(req[r], "donor"))
        => ~req[r].reached /\ ~req[r].accessed

\* Request rq was answered by a gate stage.
GateRejected(rq) ==
    /\ rq.pc = "done"
    /\ ~rq.reached
    /\ rq.outcome \in {"Unauthorized", "Forbidden", "InsufficientRole"}

\* C10: in a request to a gated route authentication has succeeded before
\* authorization runs, and both (authorization where the route declares
\* roles) have succeeded before the handler calls connectDb() or the store;
\* a request a stage rejected never touches the store.
C10_GateOrder ==
    \A r \in 1..NReq :
        LET rq == req[r] IN
        (rq.pc # "idle" /\ rq.route \notin PublicRoutes) =>
            /\ rq.pc = "verifyRole" => rq.authOk
            /\ rq.roleOk => rq.authOk
            /\ (rq.reached \/ rq.accessed \/ rq.db # 0) =>
                   /\ rq.authOk
                   /\ (rq.app = "index" /\ AllowedRoles(rq.route) # {}) => rq.roleOk
            /\ GateRejected(rq) => (~rq.accessed /\ rq.db = 0 /\ rq.client = 0)

\* C10 witness: a donation request passed both stages and was stored.
C10_Witness ==
    \E r \in 1..NReq :
        /\ req[r].app = "index" /\ req[r].route = "POST /donation-requests"
        /\ req[r].authOk /\ req[r].roleOk /\ req[r].accessed
        /\ req[r].status = 201
        /\ donationRequests = 1
        /\ \E q \in 1..NReq : GateRejected(req[q]) /\ req[q].outcome = "InsufficientRole"
\* ------------------------------------------------------------ user records
\* Requests that write the Users collection: registration on index.js and on
\* part_000, and the four PATCH routes of index.js with every signed token.
NUsers == 2

UsersInputs ==
    {Request(a, "POST /users", None, NoTok,
             [email |-> "b@x", role |-> "admin", status |-> None], 0, None) :
        a \in {"index", "part_000"}}
    \cup
    {Request("index", "PATCH /users/:id", "Bearer", t,
             [email |-> None, role |-> "volunteer", status |-> None], 1, None) :
        t \in issued}
    \cup
    {Request("index", "PATCH /users/email/:email", "Bearer", t,
             [email |-> None, role |-> "admin", status |-> None], 0, "b@x") :
        t \in issued}
    \cup
    {Request("index", "PATCH /users/:id/status", "Bearer", t,
             [email |-> None, role |-> None, status |-> "blocked"], 1, None) :
        t \in issued}
    \cup
    {Request("index", "PATCH /users/:id/role", "Bearer", t,
             [email |-> None, role |-> "admin", status |-> None],
             FindOne(users, "b@x"), None) :
        t \in issued}

ReceiveUsers(r) == ReceiveFrom(r, NUsers, UsersInputs)

NextUsers ==
    \/ \E r \in 1..NReq :
           \/ ReceiveUsers(r)
           \/ VerifyJWT(r)
           \/ VerifyRole(r)
           \/ HandlerEnter(r)
           \/ ConnectResolve(r)
           \/ ConnectReject(r)
           \/ StoreOp(r)
           \/ InsertUser(r)
    \/ BootResolve
    \/ BootReject

SpecUsers == Init /\ [][NextUsers]_vars

\* A step that changes the role or status of a User Record is a step of a
\* request whose verified session token carries role admin.
C5_RoleChangedStep ==
    \A i \in 1..Len(users) :
        (users'[i].role # users[i].role \/ users'[i].status # users[i].status) =>
            \E r \in 1..NReq : req'[r] # req[r] /\ req[r].user.role = "admin"

\* C5: a User Record's role or status is changed only by a request whose
\* verified session token carries role admin.
C5_OnlyAdminChangesRoleOrStatus == [][C5_RoleChangedStep]_vars

\* A POST /users that arrives when a record has the email and gets a store
\* handle is answered 409 Conflict.
C8_SecondAnswer ==
    \A r \in 1..NReq :
        (req[r].route = "POST /users" /\ req[r].existed /\ req[r].pc = "done"
             /\ req[r].db # 0)
        => (req[r].status = 409 /\ req[r].outcome = "Conflict")

\* A registration creates a record with role donor and status active, and
\* one that arrives when a record has the email changes no record.
C8_RegistrationStep ==
    \A r \in 1..NReq :
        (req[r].route = "POST /users" /\ req'[r] # req[r]) =>
            /\ req[r].existed => users' = users
            /\ users' # users =>
                   /\ users' = Append(users, [email |-> req[r].body.email,
                                              role |-> "donor", status |-> "active"])
                   /\ req'[r].pc = "done"

\* C8: registering the same email twice in sequence: the first POST /users
\* creates the record with role donor and status active, the second is
\* answered 409 Conflict and leaves the stored record as it was.
C8_SequentialRegistration ==
    /\ []C8_SecondAnswer
    /\ [][C8_RegistrationStep]_vars

\* ------------------------------------------------------------ session issuer
\* POST /jwt of part_000 with every kind of Authorization header, and
\* POST /jwt of part_001, which reads no header.
NIssue == 2

IssueInputs ==
    {Request("part_000", "POST /jwt", h[1], h[2], NoBody, 0, None) :
        h \in {<<None, NoTok>>, <<"Bearer", Garbage>>, <<"Basic", IdToken("a@x")>>}
              \cup {<<"Bearer", IdToken(e)>> : e \in Emails}
              \cup {<<"Bearer", t>> : t \in issued}}
    \cup
    {Request("part_001", "POST /jwt", None, NoTok,
             [email |-> "b@x", role |-> ro, status |-> None], 0, None) :
        ro \in {None, "admin"}}

ReceiveIssue(r) == ReceiveFrom(r, NIssue, IssueInputs)

NextIssue ==
    \/ \E r \in 1..NReq :
           \/ ReceiveIssue(r)
           \/ HandlerEnter(r)
           \/ ConnectResolve(r)
           \/ ConnectReject(r)
           \/ StoreOp(r)
    \/ Tick

SpecIssue == Init /\ [][NextIssue]_vars

\* A token signed in this step carries the stored role of its email.
C6_IssueStep ==
    \A t \in issued' \ issued : t.role = IssuedRole(users, t.email)

\* C6: every token the session issuer signs carries the role of the User
\* Record stored under its email, or donor when there is none; never a role
\* the caller supplied.
C6_TokenRoleIsStoredRole == [][C6_IssueStep]_vars

\* An answered POST /jwt of part_000.
IssuerDone(rq) == rq.app = "part_000" /\ rq.route = "POST /jwt" /\ rq.pc = "done"

\* The header of rq carries a valid identity assertion.
ValidAssertion(rq) == rq.scheme = "Bearer" /\ rq.tok.kind = "id"

\* C7 as stated: the issuer answers 401 when the assertion is missing or
\* invalid, and with a valid assertion it does not fail for want of a record.
C7_InvalidAssertionIs401 ==
    \A r \in 1..NReq :
        IssuerDone(req[r]) =>
            /\ ~ValidAssertion(req[r]) => req[r].status = 401
            /\ (ValidAssertion(req[r]) /\ req[r].db # 0) => req[r].status = 200

\* C7 amended: 401 Unauthorized when the header is missing or not of the
\* Bearer scheme, 403 Forbidden when a Bearer token is not a valid identity
\* assertion, both before any store access; with a valid assertion and a
\* store handle the issuer answers 200 with a token, record or no record.
C7_Missing401Invalid403 ==
    \A r \in 1..NReq :
        IssuerDone(req[r]) =>
            /\ req[r].scheme # "Bearer" =>
                   (req[r].status = 401 /\ req[r].outcome = "Unauthorized"
                        /\ ~req[r].accessed)
            /\ (req[r].scheme = "Bearer" /\ req[r].tok.kind # "id") =>
                   (req[r].status = 403 /\ req[r].outcome = "Forbidden"
                        /\ ~req[r].accessed)
            /\ (ValidAssertion(req[r]) /\ req[r].db # 0) =>
                   /\ req[r].status = 200
                   /\ \E t \in issued : t.kind = "jwt" /\ t.email = req[r].tok.email

\* C7 witness: a valid assertion for an email with no User Record was
\* answered 200 with a donor token, and an undecodable one was answered 403.
C7_Witness ==
    \E r, q \in 1..NReq :
        /\ IssuerDone(req[r]) /\ ValidAssertion(req[r])
        /\ FindOne(users, req[r].tok.email) = 0
        /\ req[r].status = 200
        /\ \E t \in issued : t.email = req[r].tok.email /\ t.role = "donor"
        /\ IssuerDone(req[q]) /\ req[q].tok = Garbage /\ req[q].status = 403
\* ------------------------------------------------------------ role changes
\* An admin-only role update on index.js, a donor-only route with every
\* signed token, and the credential exchange of part_000 for the user whose
\* role is updated; the seeded tokens expire when the first day has passed.
NRole == 2

RoleInputs ==
    {Request("index", "PATCH /users/:id", "Bearer", t,
             [email |-> None, role |-> "volunteer", status |-> None],
             FindOne(users, "b@x"), None) : t \in issued}
    \cup
    {Request("index", "POST /donation-requests", "Bearer", t, NoBody, 0, None) :
        t \in issued}
    \cup
    {Request("part_000", "POST /jwt", "Bearer", IdToken("b@x"), NoBody, 0, None)}

ReceiveRole(r) == ReceiveFrom(r, NRole, RoleInputs)

NextRole ==
    \/ \E r \in 1..NReq :
           \/ ReceiveRole(r)
           \/ VerifyJWT(r)
           \/ VerifyRole(r)
           \/ HandlerEnter(r)
           \/ ConnectResolve(r)
           \/ ConnectReject(r)
           \/ StoreOp(r)
    \/ BootResolve
    \/ BootReject
    \/ Tick

SpecRole == SeededInit /\ [][NextRole]_vars

\* Request rq of index.js is past verifyJWT / past verifyRole.
PastVerifyJWT(rq) ==
    rq.app = "index" /\ rq.route \notin PublicRoutes /\ ~IsGet(rq.route)
        /\ rq.pc \notin {"idle", "verifyJWT"}
PastVerifyRole(rq) ==
    PastVerifyJWT(rq) /\ AllowedRoles(rq.route) # {} /\ rq.authOk /\ rq.pc # "verifyRole"

\* A Bearer session token is accepted by verifyJWT unless it has expired,
\* and verifyRole lets the request through exactly when the role claim of
\* that token is allowed on the route.
C9_GateDecision ==
    \A r \in 1..NReq :
        LET rq == req[r] IN
        /\ (PastVerifyJWT(rq) /\ rq.scheme = "Bearer" /\ rq.tok.kind = "jwt") =>
               /\ rq.authOk \/ clock >= Exp(rq.tok)
               /\ rq.authOk => rq.user = rq.tok
        /\ PastVerifyRole(rq) =>
               IF rq.tok.role \in AllowedRoles(rq.route)
               THEN rq.roleOk /\ rq.outcome # "InsufficientRole"
               ELSE ~rq.roleOk /\ ~rq.reached /\ rq.status = 403
                        /\ rq.outcome = "InsufficientRole"

\* Signed tokens never change, and a token signed by the credential
\* exchange carries the role the record holds at that moment.
C9_IssueStep ==
    /\ issued \subseteq issued'
    /\ \A t \in issued' \ issued :
           t.role = IssuedRole(users, t.email) /\ t.iat = clock

\* C9: the gate decides on the role claim of the presented token, never on
\* the live User Record: a token issued before an admin changed the role is
\* accepted or rejected by its old role until it expires, and the new role
\* is carried only by tokens a later credential exchange signs.
C9_TokenRoleDecides ==
    /\ []C9_GateDecision
    /\ [][C9_IssueStep]_vars

\* C9 witness: the admin made the donor a volunteer, and afterwards a
\* request with the donor token issued before the change passed
\* verifyRole("donor") and was stored.
C9_Witness ==
    \E r, q \in 1..NReq :
        /\ q < r
        /\ req[q].route = "PATCH /users/:id" /\ req[q].status = 200
        /\ req[q].tok.role = "admin"
        /\ req[r].app = "index" /\ req[r].route = "POST /donation-requests"
        /\ req[r].tok.role = "donor"
        /\ IssuedRole(users, req[r].tok.email) = "volunteer"
        /\ req[r].roleOk /\ req[r].status = 201
\* ------------------------------------------------------------ authentication stage
\* verifyJWT of index.js and of part_000 on a gated route, with no header,
\* with the Basic and the Bearer scheme, and behind the scheme word an
\* undecodable token or a session token that verifies until day 1.
NAuth == 2

AuthHeaders ==
    {<<None, NoTok>>, <<"Basic", Garbage>>, <<"Bearer", Garbage>>}
        \cup {<<sc, t>> : sc \in {"Basic", "Bearer"}, t \in issued}

AuthInputs ==
    {Request(a, "POST /donation-requests", h[1], h[2], NoBody, 0, None) :
        a \in {"index", "part_000"}, h \in AuthHeaders}

ReceiveAuth(r) == ReceiveFrom(r, NAuth, AuthInputs)

NextAuth ==
    \/ \E r \in 1..NReq :
           \/ ReceiveAuth(r)
           \/ VerifyJWT(r)
           \/ VerifyRole(r)
           \/ VerifyFirebaseToken(r)
           \/ HandlerEnter(r)
           \/ ConnectResolve(r)
           \/ ConnectReject(r)
           \/ StoreOp(r)
    \/ Tick

SpecAuth == SeededInit /\ [][NextAuth]_vars

\* What the authentication stage has to do with request rq when it runs now,
\* nx being the request after the stage.
AuthOutcome(rq, nx, now) ==
    IF rq.scheme # "Bearer"
    THEN nx.pc = "done" /\ nx.status = 401 /\ nx.outcome = "Unauthorized"
             /\ ~nx.authOk /\ nx.user = NoTok
    ELSE IF ~(rq.tok.kind = "jwt" /\ now < rq.tok.iat + ExpiresInDays)
    THEN nx.pc = "done" /\ nx.status = 403 /\ nx.outcome = "Forbidden"
             /\ ~nx.authOk /\ nx.user = NoTok
    ELSE nx.authOk /\ nx.user = rq.tok /\ nx.status = 0
             /\ nx.stage = rq.stage + 1 /\ nx.pc # "done"

C11_AuthStep ==
    \A r \in 1..NReq :
        (req[r].pc = "verifyJWT" /\ req'[r] # req[r]) =>
            AuthOutcome(req[r], req'[r], clock)

\* C11: the authentication stage ends a gated request in exactly one
\* outcome: 401 Unauthenticated when the header is missing or not of the
\* Bearer scheme, whatever follows the scheme word; 403 InvalidSession when
\* the Bearer token is undecodable or expired; otherwise the Request Context
\* holds the claims of the token and the next stage runs.
C11_AuthStageOutcome == [][C11_AuthStep]_vars

\* The part of C11 that index.js keeps.
C11_IndexAuthStageOutcome ==
    [][\A r \in 1..NReq :
           (req[r].app = "index" /\ req[r].pc = "verifyJWT" /\ req'[r] # req[r]) =>
               AuthOutcome(req[r], req'[r], clock)]_vars
\* ------------------------------------------------------------ token lifetime
\* A step of verifyJWT of index.js on a Bearer session token: later than
\* seven days after its issuance it is answered 403, earlier it is accepted.
C12_VerifyStep ==
    \A r \in 1..NReq :
        LET rq == req[r]
            nx == req'[r]
        IN (rq.app = "index" /\ rq.pc = "verifyJWT" /\ nx # rq
                /\ rq.scheme = "Bearer" /\ rq.tok.kind = "jwt") =>
               /\ clock > rq.tok.iat + ExpiresInDays =>
                      (nx.pc = "done" /\ nx.status = 403 /\ nx.outcome = "Forbidden"
                           /\ ~nx.authOk)
               /\ clock < rq.tok.iat + ExpiresInDays => (nx.authOk /\ nx.user = rq.tok)

\* No step takes a signed token back or alters it, and a token signed in
\* this step is stamped with the present day, so that it expires seven days
\* from now.
C12_IssueStep ==
    /\ issued \subseteq issued'
    /\ \A t \in issued' \ issued : t.iat = clock /\ Exp(t) = clock + ExpiresInDays

NFund == 2

FundSeeds ==
    { [users |-> <<[email |-> "a@x", role |-> "admin", status |-> "active"],
                   [email |-> "b@x", role |-> "donor", status |-> "active"]>>,
       issued |-> {SessionToken("a@x", "admin", SeedIat),
                   SessionToken("a@x", "donor", SeedIat),
                   SessionToken("b@x", "donor", SeedIat)}] }

FundInit == InitFrom(FundSeeds) /\ uriSet

FundInputs ==
    {[Request("index", "POST /fundings", "Bearer", t,
              [email |-> e, role |-> None, status |-> None], 0, None)
          EXCEPT !.fuid = UidOf(e)] :
        t \in {u \in issued : u.role # "admin"}, e \in Emails}
    \cup
    {Request("index", "POST /fundings", "Bearer", t, NoBody, 0, None) :
        t \in {u \in issued : u.role = "admin"}}
    \cup
    {[Request("index", "POST /fundings", "Bearer", t, NoBody, 0, None)
          EXCEPT !.amountOk = FALSE] : t \in {SessionToken("b@x", "donor", SeedIat)}}
    \cup
    {Request("index", "GET /fundings", "Bearer", t, NoBody, 0, None) : t \in issued}

ReceiveFund(r) == ReceiveFrom(r, NFund, FundInputs)

NextFund ==
    \/ \E r \in 1..NReq :
           \/ ReceiveFund(r)
           \/ ServeReactApp(r)
           \/ VerifyJWT(r)
           \/ HandlerEnter(r)
           \/ ConnectResolve(r)
           \/ ConnectReject(r)
           \/ StoreOp(r)
           \/ InsertFunding(r)

SpecFund == FundInit /\ [][NextFund]_vars

NBoot == 2

BootInputs ==
    {Request("index", "POST /users", None, NoTok,
             [email |-> e, role |-> None, status |-> None], 0, None) : e \in Emails}

ReceiveBoot(r) == ReceiveFrom(r, NBoot, BootInputs)

NextBoot ==
    \/ \E r \in 1..NReq :
           \/ ReceiveBoot(r)
           \/ HandlerEnter(r)
           \/ ConnectResolve(r)
           \/ ConnectReject(r)
           \/ StoreOp(r)
           \/ InsertUser(r)
    \/ BootResolve
    \/ BootReject
    \/ BootCrash

SpecBoot == Init /\ [][NextBoot]_vars

\* A failing connectDb() called by a request is delivered to the global
\* error handler, which answers 500.
C14_RequestFailuresHandled ==
    \A r \in 1..NReq :
        ConnectFailed(req[r]) => (req[r].status = 500 /\ req[r].outcome = "InternalError")

\* C14: no failing connectDb() goes unhandled or ends the process, the call
\* of module load included: its rejection reaches a handler, no request is
\* lost with the process, and a failing call of a request is answered by
\* the error handler.
C14_ConnectFailureHandled ==
    /\ boot.pc \notin {"rejected", "crashed"}
    /\ \A r \in 1..NReq : req[r].pc # "aborted"
    /\ C14_RequestFailuresHandled
\* ------------------------------------------------------------ error responses
\* A fault of connectDb() inside a handler of index.js ends in the global
\* error handler.
C15_FaultsReachErrorHandler ==
    \A r \in 1..NReq :
        (req[r].app = "index" /\ ConnectFailed(req[r])) => req[r].outcome = "InternalError"

\* C15: every fault thrown or rejected inside a handler of index.js reaches
\* the global error handler, and what it answers is status 500 with a body
\* that holds no text derived from the thrown error.
C15_GenericInternalError ==
    /\ C15_FaultsReachErrorHandler
    /\ \A r \in 1..NReq :
           (req[r].app = "index" /\ req[r].outcome = "InternalError") =>
               (req[r].status = 500 /\ ~req[r].detail)
\* ------------------------------------------------------------ concurrent registration
\* The registrations of index.js that were answered 201 for email e.
Registered(e) ==
    {r \in 1..NReq : /\ req[r].app = "index" /\ req[r].route = "POST /users"
                     /\ req[r].body.email = e /\ req[r].status = 201}

\* C16: however POST /users requests interleave between their findOne and
\* their insertOne, the Users collection never holds two records with one
\* email, and at most one request for an email is answered 201.
C16_EmailUniqueUnderConcurrency ==
    /\ \A i, j \in 1..Len(users) : users[i].email = users[j].email => i = j
    /\ \A e \in Emails : Cardinality(Registered(e)) <= 1
\* ------------------------------------------------------------ reaching the handler
\* Request rq went to a gated route with a Bearer session token that still
\* verifies and whose role the route allows (any role where the route
\* declares none).
Entitled(rq) ==
    /\ rq.route \notin PublicRoutes \cup {None}
    /\ rq.scheme = "Bearer"
    /\ JwtVerifyOk(rq.tok, clock)
    /\ (rq.app = "index" /\ AllowedRoles(rq.route) # {}) =>
           rq.tok.role \in AllowedRoles(rq.route)

\* C17: a request to a gated route with a valid, unexpired session token
\* of an allowed role is answered by the resource handler of that route:
\* no gate stage rejects it and no middleware or route registered earlier
\* answers it first.
C17_EntitledReachesHandler ==
    \A r \in 1..NReq :
        (Entitled(req[r]) /\ req[r].pc = "done") =>
            (req[r].reached /\ req[r].outcome # "StaticPage")

\* The part of C17 that the routes of index.js other than GET keep.
C17_EntitledNonGetReachesHandler ==
    \A r \in 1..NReq :
        (Entitled(req[r]) /\ req[r].pc = "done" /\ req[r].app = "index"
             /\ ~IsGet(req[r].route)) => req[r].reached
====
